---- MODULE Spec2Model ----
(***************************************************************************)
(* A model of the YARA diversity/rarefaction engine:                       *)
(*   - load_qiime2_data and QIIME2Parser (backend/analysis/qiime_parser.py *)
(*     and actions/utils/qiime_parser_module.py): archive loads as         *)
(*     interleaved step machines over a shared temporary-file area;        *)
(*   - RarefactionAnalyzer (actions/utils/rarefaction_analyzer.py):        *)
(*     get_plateau_depth, calculate_saturation, recommend_sampling_depth   *)
(*     as operators over a bounded table, applied by actions;              *)
(*   - QIIME2Parser._parse_taxonomy_string, applied to one Taxon cell;     *)
(*   - calculate_kruskal_wallis and calculate_mann_whitney                 *)
(*     (backend/analysis/statistics.py);                                   *)
(*   - AlphaDiversityAnalyzer.compare_groups, get_summary_stats and        *)
(*     interpret_value (backend/analysis/alpha_diversity.py);              *)
(*   - BetaDiversityAnalyzer (backend/analysis/beta_diversity.py);         *)
(*   - the analyzers together, any number of calls on one table;           *)
(*   - QIIME2Parser.extract_qzv and cleanup called directly;               *)
(*   - POST /api/parse (backend/routers/parse.py) around the loader;       *)
(*   - POST /api/reports/pdf and /docx (backend/routers/reports.py,        *)
(*     backend/analysis/report_generator.py).                              *)
(***************************************************************************)
EXTENDS Integers, Sequences, FiniteSets, TLC

VARIABLES
    \* ---- loader ----
    fs_dirs,      \* temporary directories that exist on the file system
    next_dir,     \* number of directories tempfile.mkdtemp has created so far
    pc,           \* pc[c]: position of load call c
    input,        \* input[c]: the file the call was given
    temp_dir,     \* temp_dir[c]: QIIME2Parser.temp_dir of the call's parser
    made,         \* made[c]: directories created by mkdtemp for call c (history)
    tsv_files,    \* tsv_files[c]: number of files found by find_data_files
    df,           \* df[c]: the local variable df of load_qiime2_data
    outcome,      \* outcome[c]: how the call ended: "returned" (a table),
                  \* "returned_none", or the name of the exception raised
    \* ---- the analyzers (rarefaction, taxonomy, statistics, alpha, beta) ----
    data,         \* the DataFrame or cell analysed (NaN for a missing cell)
    depths,       \* self.depths: the depth columns in column order
    op,           \* the last analyzer operation applied
    arg,          \* its arguments
    result,       \* its return value
    analyzer,     \* which analyzer holds the table ("none" during the loads)
    \* ---- the HTTP endpoints (backend/routers) ----
    request,      \* request[c]: what request c carries and what it was answered
    tmp_files,    \* the temporary upload files that exist (by tmp.name)
    report_files  \* report_files[path]: content of the file at path

apiVars == <<request, tmp_files, report_files>>
loadVars == <<fs_dirs, next_dir, pc, input, temp_dir, made, tsv_files, df, outcome,
             apiVars>>
rareVars == <<data, depths, op, arg, result, analyzer, apiVars>>
vars == <<fs_dirs, next_dir, pc, input, temp_dir, made, tsv_files, df, outcome,
          data, depths, op, arg, result, analyzer, request, tmp_files, report_files>>

\* Python's None where a string stands for the value, and an unbound local
None == "None"
Unbound == "Unbound"
\* QIIME2Parser.temp_dir = None (directories are numbered from 1)
NoDir == 0

(***************************************************************************)
(* Bounds                                                                  *)
(***************************************************************************)
NumCalls == 2
MaxTsv == 2

Calls == 1..NumCalls

(***************************************************************************)
(* load_qiime2_data                                                        *)
(***************************************************************************)
\* The two copies of the loader differ in one line: the backend copy sets
\* df = None before testing tsv_files, the actions copy does not.
Variants == {"backend", "actions"}

\* What a call can be given: the path's suffix, whether the path exists,
\* whether it is a readable zip, how many *.tsv files the archive holds and
\* whether the first of them parses.
\* A field that the call never gets to read is held at its default.
Inputs ==
    {i \in [variant : Variants, qzv : BOOLEAN, exists : BOOLEAN, zip_ok : BOOLEAN,
            ntsv : 0..MaxTsv, parse_ok : BOOLEAN] :
        /\ (i.zip_ok => i.qzv /\ i.exists)
        /\ (i.ntsv > 0 => i.zip_ok)
        /\ (i.parse_ok => i.exists /\ (i.qzv => i.ntsv > 0))}

NoInput ==
    [variant |-> "backend", qzv |-> FALSE, exists |-> FALSE, zip_ok |-> FALSE,
     ntsv |-> 0, parse_ok |-> FALSE]

\* QIIME2Parser.cleanup: the value of temp_dir after the call
CleanupTempDir(td, dirs) ==
    IF td # NoDir /\ td \in dirs THEN NoDir ELSE td

CleanupDirs_All(td, dirs) ==
    IF td # NoDir /\ td \in dirs THEN {} ELSE dirs

\* QIIME2Parser.cleanup: the directories left after the call
CleanupDirs(td, dirs) ==
    IF td # NoDir /\ td \in dirs THEN dirs \ {td} ELSE dirs

\* parser = QIIME2Parser(); filepath = Path(filepath); the suffix test
BeginOn(c, files) ==
    /\ pc[c] = "idle"
    /\ \E i \in files :
          /\ input' = [input EXCEPT ![c] = i]
          /\ pc' = [pc EXCEPT ![c] = IF i.qzv THEN "extract" ELSE "plain"]
    /\ temp_dir' = [temp_dir EXCEPT ![c] = NoDir]
    /\ UNCHANGED <<fs_dirs, next_dir, made, tsv_files, df, outcome, rareVars>>

\* a call on any file
Begin(c) == BeginOn(c, Inputs)

\* the else branch: the file is read where it is, no directory is created
LoadPlain(c) ==
    /\ pc[c] = "plain"
    /\ pc' = [pc EXCEPT ![c] = "done"]
    /\ outcome' = [outcome EXCEPT ![c] =
          IF ~input[c].exists THEN "FileNotFoundError"
          ELSE IF ~input[c].parse_ok THEN "ParserError" ELSE "returned"]
    /\ df' = [df EXCEPT ![c] =
          IF input[c].exists /\ input[c].parse_ok THEN "table" ELSE Unbound]
    /\ UNCHANGED <<fs_dirs, next_dir, input, temp_dir, made, tsv_files, rareVars>>

\* extract_qzv, first half: the existence test and tempfile.mkdtemp
Mkdtemp(c) ==
    /\ pc[c] = "extract"
    /\ IF ~input[c].exists
       THEN /\ pc' = [pc EXCEPT ![c] = "done"]
            /\ outcome' = [outcome EXCEPT ![c] = "FileNotFoundError"]
            /\ UNCHANGED <<fs_dirs, next_dir, temp_dir, made>>
       ELSE /\ next_dir' = next_dir + 1
            /\ fs_dirs' = fs_dirs \cup {next_dir + 1}
            /\ temp_dir' = [temp_dir EXCEPT ![c] = next_dir + 1]
            /\ made' = [made EXCEPT ![c] = @ \cup {next_dir + 1}]
            /\ pc' = [pc EXCEPT ![c] = "unzip"]
            /\ UNCHANGED outcome
    /\ UNCHANGED <<input, tsv_files, df, rareVars>>

\* extract_qzv, second half: zipfile.ZipFile(...).extractall(self.temp_dir)
Unzip(c) ==
    /\ pc[c] = "unzip"
    /\ IF input[c].zip_ok
       THEN /\ pc' = [pc EXCEPT ![c] = "find"]
            /\ UNCHANGED outcome
       ELSE /\ pc' = [pc EXCEPT ![c] = "done"]
            /\ outcome' = [outcome EXCEPT ![c] = "BadZipFile"]
    /\ UNCHANGED <<fs_dirs, next_dir, input, temp_dir, made, tsv_files, df, rareVars>>

\* tsv_files = parser.find_data_files(extract_path); df = None (backend only)
FindDataFiles(c) ==
    /\ pc[c] = "find"
    /\ tsv_files' = [tsv_files EXCEPT ![c] = input[c].ntsv]
    /\ df' = [df EXCEPT ![c] = IF input[c].variant = "backend" THEN None ELSE Unbound]
    /\ pc' = [pc EXCEPT ![c] = IF input[c].ntsv > 0 THEN "read" ELSE "cleanup"]
    /\ UNCHANGED <<fs_dirs, next_dir, input, temp_dir, made, outcome, rareVars>>

\* df = pd.read_csv(tsv_files[0], sep='\t', index_col=0)
ReadCsv(c) ==
    /\ pc[c] = "read"
    /\ IF input[c].parse_ok
       THEN /\ df' = [df EXCEPT ![c] = "table"]
            /\ pc' = [pc EXCEPT ![c] = "cleanup"]
            /\ UNCHANGED outcome
       ELSE /\ pc' = [pc EXCEPT ![c] = "done"]
            /\ outcome' = [outcome EXCEPT ![c] = "ParserError"]
            /\ UNCHANGED df
    /\ UNCHANGED <<fs_dirs, next_dir, input, temp_dir, made, tsv_files, rareVars>>

\* parser.cleanup()
Cleanup(c) ==
    /\ pc[c] = "cleanup"
    /\ fs_dirs' = CleanupDirs(temp_dir[c], fs_dirs)
    /\ temp_dir' = [temp_dir EXCEPT ![c] = CleanupTempDir(temp_dir[c], fs_dirs)]
    /\ pc' = [pc EXCEPT ![c] = "return"]
    /\ UNCHANGED <<next_dir, input, made, tsv_files, df, outcome, rareVars>>

\* return df
Return(c) ==
    /\ pc[c] = "return"
    /\ pc' = [pc EXCEPT ![c] = "done"]
    /\ outcome' = [outcome EXCEPT ![c] =
          IF df[c] = Unbound THEN "UnboundLocalError"
          ELSE IF df[c] = None THEN "returned_none" ELSE "returned"]
    /\ UNCHANGED <<fs_dirs, next_dir, input, temp_dir, made, tsv_files, df, rareVars>>

\* the paths the report endpoints write to (under UPLOADS_DIR), and the
\* content of a path with no file
ReportPaths == {"uploads/reports/relatorio.html", "uploads/reports/relatorio.md"}
NoFile == <<>>

\* no request has been received
ApiIdle ==
    /\ request = [c \in Calls |-> [endpoint |-> "none"]]
    /\ tmp_files = {}
    /\ report_files = [p \in ReportPaths |-> NoFile]

RareIdle ==
    /\ ApiIdle
    /\ data = <<>>
    /\ depths = <<>>
    /\ op = "none"
    /\ arg = <<>>
    /\ result = <<>>
    /\ analyzer = "none"

LoadInit ==
    /\ fs_dirs = {}
    /\ next_dir = 0
    /\ pc = [c \in Calls |-> "idle"]
    /\ input = [c \in Calls |-> NoInput]
    /\ temp_dir = [c \in Calls |-> NoDir]
    /\ made = [c \in Calls |-> {}]
    /\ tsv_files = [c \in Calls |-> 0]
    /\ df = [c \in Calls |-> Unbound]
    /\ outcome = [c \in Calls |-> "running"]
    /\ RareIdle

LoadNext ==
    \E c \in Calls :
        \/ Begin(c)
        \/ LoadPlain(c)
        \/ Mkdtemp(c)
        \/ Unzip(c)
        \/ FindDataFiles(c)
        \/ ReadCsv(c)
        \/ Cleanup(c)
        \/ Return(c)

LoadSpec == LoadInit /\ [][LoadNext]_vars

(***************************************************************************)
(* Numbers                                                                 *)
(*                                                                         *)
(* A missing cell (pandas NaN) is the value NaN; every other cell is a     *)
(* natural number.  A float result is an exact fraction [num, den], and    *)
(* den = 0 stands for a float NaN.                                         *)
(***************************************************************************)
NaN == -1

Rat(n, d) == [num |-> n, den |-> d]
RatNaN == Rat(0, 0)
IsRatNaN(q) == q.den = 0

\* float comparisons: every comparison with a NaN is False
RatGt(p, q) == ~IsRatNaN(p) /\ ~IsRatNaN(q) /\ p.num * q.den > q.num * p.den
RatGe(p, q) == ~IsRatNaN(p) /\ ~IsRatNaN(q) /\ p.num * q.den >= q.num * p.den
RatEq(p, q) == ~IsRatNaN(p) /\ ~IsRatNaN(q) /\ p.num * q.den = q.num * p.den

\* float multiplication
RatMul(p, q) == IF IsRatNaN(p) \/ IsRatNaN(q) THEN RatNaN
                ELSE Rat(p.num * q.num, p.den * q.den)

Abs(x) == IF x < 0 THEN -x ELSE x

(***************************************************************************)
(* RarefactionAnalyzer                                                     *)
(***************************************************************************)
NumSamples == 2
NumDepths == 3
MaxValue == 3
MaxCells == 4

\* a depth of 0 stands for "no depth" (Python None); depth labels are positive
NoDepth == 0

Values == {NaN} \cup (0..MaxValue)

\* threshold and min_samples_retained, in hundredths
Thresholds == {50, 95, 100, 120}
MinRetained == {50, 80, 100}

\* the orders in which a table can list the depth columns 1..k
ColumnOrders(k) ==
    {o \in [1..k -> 1..k] : \A i, j \in 1..k : i # j => o[i] # o[j]}

\* RarefactionAnalyzer.__init__: sample_ids is the index of the table
sample_ids == 1..Len(data)

\* pandas Series.max(): the largest cell that is not missing, NaN if none
RECURSIVE SeriesMax(_, _)
SeriesMax(row, i) ==
    IF i = 0 THEN NaN
    ELSE LET m == SeriesMax(row, i - 1) IN
         IF row[i] = NaN THEN m
         ELSE IF m = NaN \/ row[i] > m THEN row[i] ELSE m

\* ReachesPlateau with > for >=
ReachesPlateau_Strict(v, max_value, threshold) ==
    /\ v # NaN
    /\ max_value # NaN
    /\ v * 100 > max_value * threshold

\* ReachesPlateau with the comparison turned round
ReachesPlateau_Flipped(v, max_value, threshold) ==
    /\ v # NaN
    /\ max_value # NaN
    /\ v * 100 <= max_value * threshold

\* sample_data[depth] >= max_value * threshold
ReachesPlateau(v, max_value, threshold) ==
    /\ v # NaN
    /\ max_value # NaN
    /\ v * 100 >= max_value * threshold

\* the loop of get_plateau_depth from column i on
RECURSIVE PlateauScan(_, _, _, _)
PlateauScan(row, max_value, threshold, i) ==
    IF i > Len(depths) THEN NoDepth
    ELSE IF ReachesPlateau(row[i], max_value, threshold) THEN depths[i]
    ELSE PlateauScan(row, max_value, threshold, i + 1)

get_plateau_depth(sample_id, threshold) ==
    IF sample_id \notin sample_ids THEN NoDepth
    ELSE LET sample_data == data[sample_id] IN
         PlateauScan(sample_data, SeriesMax(sample_data, Len(sample_data)),
                     threshold, 1)

\* SaturationOf without the min(final_change, 1.0)
SaturationOf_NoClamp(v1, v2) ==
    IF v1 = NaN \/ ~(v1 > 0) THEN Rat(1, 1)
    ELSE IF v2 = NaN THEN RatNaN
    ELSE Rat(v1 - Abs(v1 - v2), v1)

\* final_change and saturation = 1.0 - min(final_change, 1.0) of
\* calculate_saturation, from the last value (v1) and the one before (v2)
SaturationOf(v1, v2) ==
    IF v1 = NaN \/ ~(v1 > 0) THEN Rat(1, 1)
    ELSE IF v2 = NaN THEN RatNaN
    ELSE IF Abs(v1 - v2) > v1 THEN Rat(0, v1)
    ELSE Rat(v1 - Abs(v1 - v2), v1)

calculate_saturation(sample_id) ==
    IF sample_id \notin sample_ids THEN Rat(0, 1)
    ELSE LET values == data[sample_id] IN
         IF Len(values) < 2 THEN Rat(0, 1)
         ELSE SaturationOf(values[Len(values)], values[Len(values) - 1])

\* the position of a depth column in the table
ColumnOf(depth) == CHOOSE i \in 1..Len(depths) : depths[i] = depth

\* self.data[depth].notna().sum(): the samples with a value in column i
valid_samples(i) == Cardinality({s \in sample_ids : data[s][i] # NaN})

\* the sum of the values of column i over the first n samples, NaN skipped
RECURSIVE ColumnSum(_, _)
ColumnSum(i, n) ==
    IF n = 0 THEN 0
    ELSE ColumnSum(i, n - 1) + (IF data[n][i] = NaN THEN 0 ELSE data[n][i])

\* saturations[depth] = self.data[depth].mean(): the mean of the VALUES of
\* the column, NaN skipped (NaN when the column has no value)
ColumnMean(i) ==
    IF valid_samples(i) = 0 THEN RatNaN
    ELSE Rat(ColumnSum(i, Len(data)), valid_samples(i))

\* retention_rate = valid_samples / len(self.sample_ids)
retention_rate(i) == Rat(valid_samples(i), Len(data))

\* Qualifies with the count of valid samples in the place of the rate
Qualifies_Count(i, min_samples_retained) ==
    RatGe(Rat(valid_samples(i), 1), Rat(min_samples_retained, 100))

\* retention_rate >= min_samples_retained
Qualifies(i, min_samples_retained) ==
    RatGe(retention_rate(i), Rat(min_samples_retained, 100))

\* score = saturations[depth] * retention_rate
Score(i) == RatMul(ColumnMean(i), retention_rate(i))

\* if score > best_score
Improves(score, best_score) == RatGt(score, best_score)

\* the search loop of recommend_sampling_depth over the columns 1..i:
\* best_depth and best_score after column i
RECURSIVE BestScan(_, _)
BestScan(min_samples_retained, i) ==
    IF i = 0 THEN [best_depth |-> NoDepth, best_score |-> Rat(0, 1)]
    ELSE LET b == BestScan(min_samples_retained, i - 1) IN
         IF Qualifies(i, min_samples_retained) /\ Improves(Score(i), b.best_score)
         THEN [best_depth |-> depths[i], best_score |-> Score(i)]
         ELSE b

\* Discarded with notna() for isna()
Discarded_NotNa(i) ==
    SelectSeq([s \in 1..Len(data) |-> s], LAMBDA s : data[s][i] # NaN)

\* self.data[self.data[best_depth].isna()].index.tolist()
Discarded(i) ==
    SelectSeq([s \in 1..Len(data) |-> s], LAMBDA s : data[s][i] = NaN)

ReasonFound == "Profundidade oferece melhor balanco entre saturacao e retencao de amostras"
ReasonNotFound == "Nao foi possivel encontrar profundidade que mantenha o minimo de amostras"

\* the Python type of each entry of the dictionary
RecommendationTypes ==
    [recommended_depth |-> "int or None", samples_retained |-> "int",
     samples_discarded |-> "list", reason |-> "str"]

\* Recommendation falling back on the first depth column when none was found
Recommendation_DefaultGuess(best_depth) ==
    LET d == IF best_depth # NoDepth THEN best_depth ELSE depths[1] IN
    [recommended_depth |-> d,
     samples_retained  |-> valid_samples(ColumnOf(d)),
     samples_discarded |-> Discarded(ColumnOf(d)),
     reason            |-> ReasonFound]

\* the dictionary built after the loop
Recommendation(best_depth) ==
    IF best_depth # NoDepth
    THEN [recommended_depth |-> best_depth,
          samples_retained  |-> valid_samples(ColumnOf(best_depth)),
          samples_discarded |-> Discarded(ColumnOf(best_depth)),
          reason            |-> ReasonFound]
    ELSE [recommended_depth |-> NoDepth,
          samples_retained  |-> 0,
          samples_discarded |-> <<>>,
          reason            |-> ReasonNotFound]

recommend_sampling_depth(min_samples_retained) ==
    Recommendation(BestScan(min_samples_retained, Len(depths)).best_depth)

(***************************************************************************)
(* The analyzer's actions.  No method assigns to self.data, self.depths or *)
(* self.sample_ids, so a call made after other calls sees the table the    *)
(* first call saw: every (table, call, result) is reached by one call on   *)
(* the freshly constructed analyzer.                                       *)
(***************************************************************************)
RecommendSamplingDepth ==
    /\ op = "init"
    /\ \E m \in MinRetained :
          /\ op' = "recommend"
          /\ arg' = <<m>>
          /\ result' = recommend_sampling_depth(m)
    /\ UNCHANGED <<data, depths, analyzer, loadVars>>

GetPlateauDepth ==
    /\ op = "init"
    /\ \E s \in 1..NumSamples, t \in Thresholds :
          /\ op' = "plateau"
          /\ arg' = <<s, t>>
          /\ result' = get_plateau_depth(s, t)
    /\ UNCHANGED <<data, depths, analyzer, loadVars>>

CalculateSaturation ==
    /\ op = "init"
    /\ \E s \in 1..NumSamples :
          /\ op' = "saturation"
          /\ arg' = <<s>>
          /\ result' = calculate_saturation(s)
    /\ UNCHANGED <<data, depths, analyzer, loadVars>>

LoadIdle ==
    /\ ApiIdle
    /\ fs_dirs = {}
    /\ next_dir = 0
    /\ pc = [c \in Calls |-> "idle"]
    /\ input = [c \in Calls |-> NoInput]
    /\ temp_dir = [c \in Calls |-> NoDir]
    /\ made = [c \in Calls |-> {}]
    /\ tsv_files = [c \in Calls |-> 0]
    /\ df = [c \in Calls |-> Unbound]
    /\ outcome = [c \in Calls |-> "running"]

\* RarefactionAnalyzer(rarefaction_data) on a table of n samples and k depth
\* columns, the columns in any order
RareInit ==
    /\ LoadIdle
    /\ \E n \in 1..NumSamples, k \in 1..NumDepths :
          /\ n * k <= MaxCells
          /\ depths \in ColumnOrders(k)
          /\ data \in [1..n -> [1..k -> Values]]
    /\ op = "init"
    /\ arg = <<>>
    /\ result = <<>>
    /\ analyzer = "rarefaction"

RareNext ==
    \/ GetPlateauDepth
    \/ CalculateSaturation
    \/ RecommendSamplingDepth

RareSpec == RareInit /\ [][RareNext]_vars

(***************************************************************************)
(* Vocabulary of the claims                                                *)
(***************************************************************************)
\* A rarefaction curve maps depths in strictly increasing key order to
\* values: the table lists its depth columns in ascending order.
IsAscending == \A i, j \in 1..Len(depths) : i < j => depths[i] < depths[j]

DepthLabels == {depths[i] : i \in 1..Len(depths)}

\* the value of sample s at a depth (NaN when the cell is missing)
ValueAt(s, depth) == data[s][ColumnOf(depth)]

MaxOf(S) == CHOOSE m \in S : \A x \in S : x <= m
MinOf(S) == CHOOSE m \in S : \A x \in S : m <= x

\* max(curve values), over the values the curve has
CurveMax(s) ==
    LET vs == {ValueAt(s, d) : d \in DepthLabels} \ {NaN} IN
    IF vs = {} THEN NaN ELSE MaxOf(vs)

\* the depths d with curve[d] >= threshold * max(curve values)
PlateauDepths(s, threshold) ==
    {d \in DepthLabels :
        /\ ValueAt(s, d) # NaN
        /\ CurveMax(s) # NaN
        /\ ValueAt(s, d) * 100 >= threshold * CurveMax(s)}

\* a <= b on returned depths, "no plateau" lying beyond every depth
DepthLeq(a, b) == b = NoDepth \/ (a # NoDepth /\ a <= b)

(***************************************************************************)
(* C1                                                                      *)
(***************************************************************************)
\* C1: for every archive (.qzv) load, the temporary directory created by
\* extract_qzv is removed before the call exits, on every exit path.
C1_TempDirRemovedOnEveryExit ==
    \A c \in Calls :
        (pc[c] = "done" /\ input[c].qzv) => made[c] \cap fs_dirs = {}

C4_SaturationInUnitInterval ==
    op = "saturation" =>
        /\ ~IsRatNaN(result)
        /\ 0 <= result.num
        /\ result.num <= result.den

(***************************************************************************)
(* C5                                                                      *)
(***************************************************************************)
\* 1 - min(|v_last - v_prev| / v_last, 1), the relative change taken as 0
\* when v_last = 0
ClaimedSaturation(v_last, v_prev) ==
    IF v_last = 0 THEN Rat(1, 1)
    ELSE IF Abs(v_last - v_prev) >= v_last THEN Rat(0, 1)
    ELSE Rat(v_last - Abs(v_last - v_prev), v_last)

SamplesAt(depth) == {s \in sample_ids : ValueAt(s, depth) # NaN}

\* retention >= minRetainedFraction (in hundredths)
QualifyingDepths(min_retained) ==
    {d \in DepthLabels :
        Cardinality(SamplesAt(d)) * 100 >= min_retained * Cardinality(sample_ids)}

RatAdd(p, q) == Rat(p.num * q.den + q.num * p.den, p.den * q.den)

\* saturation of the curve of sample s truncated at a depth: its points are
\* the depths up to there at which the sample has a value
TruncatedSaturation(s, depth) ==
    LET pts == {d \in DepthLabels : d <= depth /\ ValueAt(s, d) # NaN} IN
    IF Cardinality(pts) < 2 THEN Rat(0, 1)
    ELSE ClaimedSaturation(ValueAt(s, MaxOf(pts)),
                           ValueAt(s, MaxOf(pts \ {MaxOf(pts)})))

RECURSIVE SaturationSum(_, _)
SaturationSum(S, depth) ==
    IF S = {} THEN Rat(0, 1)
    ELSE LET s == CHOOSE x \in S : TRUE IN
         RatAdd(TruncatedSaturation(s, depth), SaturationSum(S \ {s}, depth))

\* score = meanSaturationAtDepth * retention
ClaimedScore(depth) ==
    LET k == Cardinality(SamplesAt(depth))
        sum == SaturationSum(SamplesAt(depth), depth)
    IN  RatMul(Rat(sum.num, sum.den * k), Rat(k, Cardinality(sample_ids)))

NoMissing == \A s \in sample_ids : \A i \in 1..Len(depths) : data[s][i] # NaN

Recommended == op = "recommend" /\ result.recommended_depth # NoDepth

(***************************************************************************)
(* C6                                                                      *)
(***************************************************************************)
\* C6: recommend_sampling_depth selects, among the qualifying depths, the
\* depth that maximizes meanSaturationAtDepth * retention, the mean taken
\* over the samples having a value at the depth of the saturation of each
\* sample's curve truncated at the depth.  (Stated here for tables with
\* ascending columns and no missing cell, where the truncated curves are
\* beyond dispute.)
C6_MaximizesMeanSaturationTimesRetention ==
    (Recommended /\ IsAscending /\ NoMissing) =>
        \A d \in QualifyingDepths(arg[1]) :
            RatGe(ClaimedScore(result.recommended_depth), ClaimedScore(d))

(***************************************************************************)
(* C7                                                                      *)
(***************************************************************************)
\* C7: a recommended depth qualifies: (samples with a value at the depth) /
\* (samples in all) >= min_samples_retained.
C7_RecommendedDepthQualifies ==
    Recommended =>
        /\ result.recommended_depth \in DepthLabels
        /\ Cardinality(SamplesAt(result.recommended_depth)) * 100
               >= arg[1] * Cardinality(sample_ids)

\* a depth is recommended although a depth of lower retention scores higher
C7_Witness ==
    /\ Recommended
    /\ \E d \in DepthLabels \ QualifyingDepths(arg[1]) :
          /\ SamplesAt(d) # {}
          /\ RatGt(Score(ColumnOf(d)), Score(ColumnOf(result.recommended_depth)))

(***************************************************************************)
(* C8                                                                      *)
(***************************************************************************)
\* the qualifying depths whose score is maximal
TopDepths(min_retained) ==
    {d \in QualifyingDepths(min_retained) :
        \A e \in QualifyingDepths(min_retained) :
            RatGe(Score(ColumnOf(d)), Score(ColumnOf(e)))}

\* C8: when several qualifying depths have the same maximal score, the
\* smallest of them is returned, whatever the order of the depth columns.
C8_TieKeepsSmallestDepth ==
    Recommended =>
        result.recommended_depth = MinOf(TopDepths(arg[1]))

(***************************************************************************)
(* C9                                                                      *)
(***************************************************************************)
\* C9: when no depth has retention >= min_samples_retained the result is a
\* failure state: recommended_depth is None, the reason is non-empty, and no
\* default depth is guessed.
C9_NoQualifyingDepthFails ==
    (op = "recommend" /\ QualifyingDepths(arg[1]) = {}) =>
        /\ result.recommended_depth = NoDepth
        /\ result.reason # ""
        /\ result.samples_retained = 0
        /\ result.samples_discarded = <<>>

\* no depth qualifies although some depth has values to offer
C9_Witness ==
    /\ op = "recommend"
    /\ QualifyingDepths(arg[1]) = {}
    /\ \E d \in DepthLabels : SamplesAt(d) # {}
    /\ result.recommended_depth = NoDepth

(***************************************************************************)
(* C10                                                                     *)
(***************************************************************************)
\* the ids of a sequence
Ids(seq) == {seq[i] : i \in 1..Len(seq)}

\* C10 as claimed: when a depth is recommended the output holds the list of
\* retained sample ids and the list of discarded sample ids, the discarded
\* being exactly the samples lacking a value at the chosen depth.
C10_RetainedAndDiscardedLists ==
    Recommended =>
        /\ RecommendationTypes.samples_retained = "list"
        /\ RecommendationTypes.samples_discarded = "list"
        /\ Ids(result.samples_discarded)
               = sample_ids \ SamplesAt(result.recommended_depth)

\* C10 as amended: when a depth is recommended the output holds the NUMBER
\* of retained samples and the list of discarded sample ids; the discarded
\* are exactly the samples lacking a value at the chosen depth, each once,
\* the number retained is exactly the number of samples having one, and the
\* two account for all samples.
C10_RetainedCountAndDiscardedList ==
    Recommended =>
        /\ RecommendationTypes.samples_retained = "int"
        /\ RecommendationTypes.samples_discarded = "list"
        /\ Ids(result.samples_discarded)
               = sample_ids \ SamplesAt(result.recommended_depth)
        /\ Len(result.samples_discarded)
               = Cardinality(Ids(result.samples_discarded))
        /\ result.samples_retained
               = Cardinality(SamplesAt(result.recommended_depth))
        /\ result.samples_retained + Len(result.samples_discarded)
               = Cardinality(sample_ids)

\* a recommendation that keeps some samples and discards others
C10_Witness ==
    /\ Recommended
    /\ result.samples_retained >= 1
    /\ Len(result.samples_discarded) >= 1

(***************************************************************************)
(* QIIME2Parser._parse_taxonomy_string                                     *)
(*                                                                         *)
(* A Python str is a sequence of one-character strings.  A cell of the     *)
(* Taxon column is a str, a float NaN, None, or (a column whose cells all  *)
(* read as numbers) an int.  A dict is the sequence of its items in        *)
(* insertion order.  The analyzer variables data, op and result hold the   *)
(* cell, the call and its outcome.                                         *)
(***************************************************************************)
MaxTokens == 5

\* levels = {'k': 'Kingdom', 'p': 'Phylum', ...}
levels ==
    [k |-> "Kingdom", p |-> "Phylum", c |-> "Class", o |-> "Order",
     f |-> "Family", g |-> "Genus", s |-> "Species"]

\* the literal 'Unassigned'
Unassigned == <<"U", "n", "a", "s", "s", "i", "g", "n", "e", "d">>

\* the characters str.strip() removes
Whitespace == {" ", "\t", "\n"}

\* the cells: tax_string values
StrCell(s) == [kind |-> "str", chars |-> s]
NaNCell == [kind |-> "nan", chars |-> <<>>]
NoneCell == [kind |-> "none", chars |-> <<>>]
IntCell == [kind |-> "int", chars |-> <<>>]

\* pd.isna(tax_string)
isna(cell) == cell.kind \in {"nan", "none"}

RECURSIVE LStrip(_)
LStrip(s) ==
    IF s = <<>> THEN s
    ELSE IF Head(s) \in Whitespace THEN LStrip(Tail(s)) ELSE s

RECURSIVE RStrip(_)
RStrip(s) ==
    IF s = <<>> THEN s
    ELSE IF s[Len(s)] \in Whitespace THEN RStrip(SubSeq(s, 1, Len(s) - 1)) ELSE s

Strip_LeftOnly(s) == LStrip(s)

\* str.strip()
Strip(s) == RStrip(LStrip(s))

\* str.split(sep) for a one-character separator
RECURSIVE Split(_, _)
Split(s, sep) ==
    IF \A i \in 1..Len(s) : s[i] # sep THEN <<s>>
    ELSE LET i == CHOOSE j \in 1..Len(s) :
                      s[j] = sep /\ \A h \in 1..(j - 1) : s[h] # sep
         IN  <<SubSeq(s, 1, i - 1)>> \o Split(SubSeq(s, i + 1, Len(s)), sep)

\* the index of the first '__' in part, 0 when there is none
FindSeparator(part) ==
    IF \E i \in 1..(Len(part) - 1) : part[i] = "_" /\ part[i + 1] = "_"
    THEN CHOOSE i \in 1..(Len(part) - 1) :
             /\ part[i] = "_" /\ part[i + 1] = "_"
             /\ \A h \in 1..(i - 1) : ~(part[h] = "_" /\ part[h + 1] = "_")
    ELSE 0

\* level_code in levels: the keys of levels are one-character strings
InLevels(level_code) == Len(level_code) = 1 /\ level_code[1] \in DOMAIN levels

\* parsed[key] = value: a new key goes last, a key already there keeps its place
DictSet(parsed, key, value) ==
    IF \E i \in 1..Len(parsed) : parsed[i].key = key
    THEN [i \in 1..Len(parsed) |->
             IF parsed[i].key = key THEN [key |-> key, value |-> value]
             ELSE parsed[i]]
    ELSE Append(parsed, [key |-> key, value |-> value])

\* the body of "for part in parts"
ParsePart(parsed, raw) ==
    LET part == Strip(raw)
        i == FindSeparator(part)
        level_code == Strip(SubSeq(part, 1, i - 1))
        taxon == Strip(SubSeq(part, i + 2, Len(part)))
    IN  IF i = 0 THEN parsed
        ELSE IF InLevels(level_code)
             THEN DictSet(parsed, levels[level_code[1]],
                          IF taxon # <<>> THEN taxon ELSE Unassigned)
             ELSE parsed

RECURSIVE ParseParts(_, _)
ParseParts(parsed, parts) ==
    IF parts = <<>> THEN parsed
    ELSE ParseParts(ParsePart(parsed, Head(parts)), Tail(parts))

parse_taxonomy_string(tax_string) ==
    IF isna(tax_string) THEN [outcome |-> "returned", parsed |-> <<>>]
    ELSE IF tax_string.kind # "str"
         THEN [outcome |-> "AttributeError", parsed |-> <<>>]
         ELSE [outcome |-> "returned",
               parsed |-> ParseParts(<<>>, Split(tax_string.chars, ";"))]

\* The strings a call is given: every concatenation of at most MaxTokens of
\* these pieces, and the label of the documented example.
TaxTokens == {<<"k">>, <<"p">>, <<"x">>, <<" ">>, <<";">>, <<"_">>, <<"_", "_">>}

RECURSIVE TokenStrings(_)
TokenStrings(n) ==
    IF n = 0 THEN {<<>>}
    ELSE LET shorter == TokenStrings(n - 1)
         IN  shorter \cup {s \o t : s \in shorter, t \in TaxTokens}

ExampleLabel ==
    <<"k", "_", "_", "B", "a", "c", "t", "e", "r", "i", "a", ";", " ",
      "p", "_", "_", "F", "i", "r", "m", "i", "c", "u", "t", "e", "s", ";", " ",
      "c", "_", "_", ";", " ", "o", "_", "_", ";", " ",
      "f", "_", "_", "L", "a", "c", "h", "n", "o", "s", "p", "i", "r", "a",
      "c", "e", "a", "e", ";", " ", "g", "_", "_", ";", " ", "s", "_", "_">>

TaxCells ==
    {StrCell(s) : s \in TokenStrings(MaxTokens) \cup {ExampleLabel}}
        \cup {NaNCell, NoneCell, IntCell}

\* df['Taxon'].apply(self._parse_taxonomy_string), one cell
ParseTaxonomyString ==
    /\ op = "init"
    /\ op' = "parse"
    /\ result' = parse_taxonomy_string(data)
    /\ UNCHANGED <<data, depths, arg, analyzer, loadVars>>

TaxInit ==
    /\ LoadIdle
    /\ data \in TaxCells
    /\ depths = <<>>
    /\ op = "init"
    /\ arg = <<>>
    /\ result = <<>>
    /\ analyzer = "taxonomy"

TaxNext == ParseTaxonomyString

TaxSpec == TaxInit /\ [][TaxNext]_vars

(***************************************************************************)
(* C11 - C13: vocabulary                                                   *)
(***************************************************************************)
RankLetters == <<"k", "p", "c", "o", "f", "g", "s">>
RankOrder ==
    <<"Kingdom", "Phylum", "Class", "Order", "Family", "Genus", "Species">>

RankIndex(rank) == CHOOSE i \in 1..7 : RankOrder[i] = rank

\* the segments of a label: its maximal runs free of ';'
SegmentsOf(s) ==
    {SubSeq(s, a, b) : <<a, b>> \in
        {ab \in (1..(Len(s) + 1)) \X (0..Len(s)) :
            /\ ab[2] >= ab[1] - 1
            /\ (ab[1] = 1 \/ s[ab[1] - 1] = ";")
            /\ (ab[2] = Len(s) \/ s[ab[2] + 1] = ";")
            /\ \A i \in ab[1]..ab[2] : s[i] # ";"}}

IsBlank(t) == \A i \in 1..Len(t) : t[i] \in Whitespace

\* a text without its leading and trailing whitespace
Trimmed(t) ==
    IF IsBlank(t) THEN <<>>
    ELSE LET a == CHOOSE i \in 1..Len(t) :
                      t[i] \notin Whitespace /\ IsBlank(SubSeq(t, 1, i - 1))
             b == CHOOSE i \in 1..Len(t) :
                      t[i] \notin Whitespace /\ IsBlank(SubSeq(t, i + 1, Len(t)))
         IN  SubSeq(t, a, b)

NameOrUnassigned(name) == IF Trimmed(name) = <<>> THEN Unassigned ELSE Trimmed(name)

\* the names a label gives rank number r, the trimmed segment being exactly
\* <letter>__<name>
ExactNames(s, r) ==
    {NameOrUnassigned(SubSeq(Trimmed(t), 4, Len(Trimmed(t)))) :
        t \in {u \in SegmentsOf(s) :
                  /\ Len(Trimmed(u)) >= 3
                  /\ Trimmed(u)[1] = RankLetters[r]
                  /\ Trimmed(u)[2] = "_" /\ Trimmed(u)[3] = "_"}}

\* the same, whitespace being allowed between the letter and '__'
SpacedNames(s, r) ==
    UNION {{NameOrUnassigned(SubSeq(Trimmed(t), i + 2, Len(Trimmed(t)))) :
                i \in {j \in 2..(Len(Trimmed(t)) - 1) :
                          /\ Trimmed(t)[1] = RankLetters[r]
                          /\ IsBlank(SubSeq(Trimmed(t), 2, j - 1))
                          /\ Trimmed(t)[j] = "_" /\ Trimmed(t)[j + 1] = "_"}} :
           t \in SegmentsOf(s)}

ParsedKeys == {result.parsed[i].key : i \in 1..Len(result.parsed)}
ParsedValue(rank) ==
    result.parsed[CHOOSE i \in 1..Len(result.parsed) : result.parsed[i].key = rank].value

(***************************************************************************)
(* C11                                                                     *)
(***************************************************************************)
\* C11 (as stated): for a label string the parser maps a rank exactly when a
\* trimmed segment is <letter>__<name> with the rank's letter, to the trimmed
\* name of such a segment or to "Unassigned" when that name is empty; every
\* other segment contributes nothing.
C11_RanksFromPrefixedSegments ==
    (op = "parse" /\ data.kind = "str") =>
        /\ result.outcome = "returned"
        /\ \A r \in 1..7 :
              /\ (RankOrder[r] \in ParsedKeys) = (ExactNames(data.chars, r) # {})
              /\ (RankOrder[r] \in ParsedKeys =>
                      ParsedValue(RankOrder[r]) \in ExactNames(data.chars, r))

\* C11 (amended): the same, the prefix being the text before the first '__'
\* with the whitespace around it removed.
C11_RanksFromTrimmedPrefixes ==
    (op = "parse" /\ data.kind = "str") =>
        /\ result.outcome = "returned"
        /\ \A r \in 1..7 :
              /\ (RankOrder[r] \in ParsedKeys) = (SpacedNames(data.chars, r) # {})
              /\ (RankOrder[r] \in ParsedKeys =>
                      ParsedValue(RankOrder[r]) \in SpacedNames(data.chars, r))

\* the documented example is parsed: seven ranks, four of them Unassigned
C11_Witness ==
    /\ op = "parse"
    /\ data = StrCell(ExampleLabel)
    /\ Len(result.parsed) = 7
    /\ ParsedValue("Kingdom") = <<"B", "a", "c", "t", "e", "r", "i", "a">>
    /\ ParsedValue("Phylum") = <<"F", "i", "r", "m", "i", "c", "u", "t", "e", "s">>
    /\ ParsedValue("Family") =
           <<"L", "a", "c", "h", "n", "o", "s", "p", "i", "r", "a", "c", "e", "a", "e">>
    /\ \A rank \in {"Class", "Order", "Genus", "Species"} :
           ParsedValue(rank) = Unassigned

(***************************************************************************)
(* C12                                                                     *)
(***************************************************************************)
\* C12: the parser is total: whatever the cell (a string of any shape, NaN,
\* None or another non-string value) the call returns a mapping and raises
\* nothing, and an empty or null-like cell gives the empty mapping.
C12_ParserIsTotal ==
    op = "parse" =>
        /\ result.outcome = "returned"
        /\ (isna(data) \/ data = StrCell(<<>>) => result.parsed = <<>>)

(***************************************************************************)
(* C13                                                                     *)
(***************************************************************************)
\* C13: the mapping lists its ranks in the order Kingdom, Phylum, Class,
\* Order, Family, Genus, Species, whatever the order of the segments.
C13_RanksInFixedOrder ==
    (op = "parse" /\ result.outcome = "returned") =>
        \A i, j \in 1..Len(result.parsed) :
            i < j => RankIndex(result.parsed[i].key) < RankIndex(result.parsed[j].key)

(***************************************************************************)
(* statistics.py: calculate_kruskal_wallis and calculate_mann_whitney      *)
(*                                                                         *)
(* Neither function reads the order of the rows, so the DataFrame is kept  *)
(* by group: data[g] is the metric column of the rows labelled g, missing  *)
(* cells (NaN) first and the numbers in non-decreasing order.  A label     *)
(* with no row is absent from the table.  data[MissingLabel] holds the     *)
(* rows whose group cell is itself NaN.  unique() lists the labels in      *)
(* LabelOrder.                                                             *)
(*                                                                         *)
(* scipy.stats is outside the repository: a test either raises or returns  *)
(* a statistic and a p-value from [0, 1], here in thousandths.             *)
(***************************************************************************)
MaxObs == 5
MaxMwObs == 3
MaxMissing == 1

MinKruskalObs == 5
MinMannWhitneyObs == 3
\* 0.05, in thousandths
SignificanceLevel == 50

MissingLabel == "<NaN>"
StatLabels == {"A", "B", "C"}
LabelOrder == <<"A", "B", "C", MissingLabel>>

MwValues == {1, 2, 3}
PValues == {0, 49, 50, 1000}

\* what stats.kruskal / stats.mannwhitneyu can do
LibResults ==
    {[raised |-> r, p_value |-> p] : r \in {FALSE}, p \in PValues}
        \cup {[raised |-> TRUE, p_value |-> 0]}

NaNs(m) == [i \in 1..m |-> NaN]

\* a column of m missing cells and the n distinct numbers 1..n
CountedColumn(m, n) == NaNs(m) \o [i \in 1..n |-> i]

KwColumns == {CountedColumn(m, n) : m \in 0..MaxMissing, n \in 0..MaxObs}

\* the columns of at most MaxMwObs numbers from MwValues
MwColumns ==
    {NaNs(m) \o v : m \in 0..MaxMissing,
                    v \in {w \in UNION {[1..n -> MwValues] : n \in 0..MaxMwObs} :
                              \A i \in 1..(Len(w) - 1) : w[i] <= w[i + 1]}}

\* df[df[group_col] == group][metric_col]: nothing equals NaN
Select(group) == IF group = MissingLabel THEN <<>> ELSE data[group]

\* Series.dropna().values
dropna(column) == SelectSeq(column, LAMBDA v : v # NaN)

\* df[group_col].unique()
unique == SelectSeq(LabelOrder, LAMBDA g : data[g] # <<>>)

\* group in df[group_col].values
InColumn(group) == group \in StatLabels /\ data[group] # <<>>

\* bool(p_value < 0.05)
Significant_AtMost(p_value) == p_value <= SignificanceLevel

Significant(p_value) == p_value < SignificanceLevel

\* np.median of a sorted array, as a fraction
median(values) ==
    LET n == Len(values)
    IN  IF n = 0 THEN RatNaN
        ELSE IF n % 2 = 1 THEN Rat(values[(n + 1) \div 2], 1)
        ELSE Rat(values[n \div 2] + values[(n \div 2) + 1], 2)

\* {"success": False, "message": ...}
Failure(message) == [success |-> FALSE, message |-> message]

KwKeeps_Four(values) == Len(values) >= MinKruskalObs - 1

\* if len(values) >= 5
KwKeeps(values) == Len(values) >= MinKruskalObs

\* the for loop: valid_groups (str(group) of a string is the string)
valid_groups == SelectSeq(unique, LAMBDA g : KwKeeps(dropna(Select(g))))

calculate_kruskal_wallis(lib) ==
    IF Len(valid_groups) < 2
    THEN Failure("Grupos insuficientes")
    ELSE IF lib.raised
         THEN Failure("Erro ao executar Kruskal-Wallis")
         ELSE [success |-> TRUE, test |-> "Kruskal-Wallis", statistic |-> "H",
               p_value |-> lib.p_value, groups |-> valid_groups,
               significant |-> Significant(lib.p_value)]

MwEnough_Two(values1, values2) == ~(Len(values1) < 2 \/ Len(values2) < 2)

\* not (len(values1) < 3 or len(values2) < 3)
MwEnough(values1, values2) ==
    ~(Len(values1) < MinMannWhitneyObs \/ Len(values2) < MinMannWhitneyObs)

\* the direction named by the interpretation: higher > lower
Direction(group1, group2, med1, med2) ==
    IF RatGt(med1, med2)
    THEN [higher |-> group1, higher_median |-> med1,
          lower |-> group2, lower_median |-> med2]
    ELSE [higher |-> group2, higher_median |-> med2,
          lower |-> group1, lower_median |-> med1]

NoDirection ==
    [higher |-> None, higher_median |-> RatNaN, lower |-> None, lower_median |-> RatNaN]

calculate_mann_whitney(group1, group2, lib) ==
    LET values1 == dropna(Select(group1))
        values2 == dropna(Select(group2))
    IN  IF ~InColumn(group1) \/ ~InColumn(group2)
        THEN Failure("Grupos nao encontrados")
        ELSE IF ~MwEnough(values1, values2)
        THEN Failure("Amostras insuficientes")
        ELSE IF lib.raised
        THEN Failure("Erro no teste Mann-Whitney")
        ELSE [success |-> TRUE, test |-> "Mann-Whitney U", statistic |-> "U",
              p_value |-> lib.p_value, groups |-> <<group1, group2>>,
              significant |-> Significant(lib.p_value),
              direction |-> IF Significant(lib.p_value)
                            THEN Direction(group1, group2,
                                           median(values1), median(values2))
                            ELSE NoDirection]

\* the library is consulted only when the call gets to the try block
KruskalWallis ==
    /\ op = "init"
    /\ \E lib \in LibResults :
          /\ (Len(valid_groups) < 2 => lib.raised)
          /\ result' = calculate_kruskal_wallis(lib)
    /\ op' = "kruskal"
    /\ arg' = <<>>
    /\ UNCHANGED <<data, depths, analyzer, loadVars>>

MannWhitney ==
    /\ op = "init"
    /\ \E group1, group2 \in StatLabels, lib \in LibResults :
          /\ (~(InColumn(group1) /\ InColumn(group2)
                  /\ MwEnough(dropna(Select(group1)), dropna(Select(group2))))
                => lib.raised)
          /\ result' = calculate_mann_whitney(group1, group2, lib)
          /\ arg' = <<group1, group2>>
    /\ op' = "mann_whitney"
    /\ UNCHANGED <<data, depths, analyzer, loadVars>>

\* the tables: three groups of counted columns and possibly rows without a
\* label, or two groups of small numbers
KwTables ==
    {[g \in StatLabels \cup {MissingLabel} |->
         IF g = MissingLabel THEN CountedColumn(0, u) ELSE t[g]] :
        t \in [StatLabels -> KwColumns], u \in 0..1}

MwTables ==
    {[g \in StatLabels \cup {MissingLabel} |->
         IF g \in {"A", "B"} THEN t[g] ELSE <<>>] :
        t \in [{"A", "B"} -> MwColumns]}

StatInit ==
    /\ LoadIdle
    /\ data \in KwTables \cup MwTables
    /\ depths = <<>>
    /\ op = "init"
    /\ arg = <<>>
    /\ result = <<>>
    /\ analyzer = "statistics"

StatNext == KruskalWallis \/ MannWhitney

StatSpec == StatInit /\ [][StatNext]_vars

(***************************************************************************)
(* C14                                                                     *)
(***************************************************************************)
\* C14: an archive load whose extracted tree holds no *.tsv file ends by
\* raising MissingDataError: it neither returns a value nor raises an
\* unrelated fault; with at least one match the first match is parsed.
C14_NoTsvRaisesMissingDataError ==
    \A c \in Calls :
        (pc[c] = "done" /\ input[c].qzv /\ input[c].zip_ok) =>
            /\ (input[c].ntsv = 0 => outcome[c] = "MissingDataError")
            /\ (input[c].ntsv > 0 =>
                    outcome[c] = IF input[c].parse_ok THEN "returned"
                                 ELSE "ParserError")
(***************************************************************************)
(* C15 - C18: vocabulary                                                   *)
(***************************************************************************)
\* the groups of the table, and the non-missing observations of a group
GroupsPresent == {g \in StatLabels : data[g] # <<>>}
Observations(g) == Cardinality({i \in 1..Len(data[g]) : data[g][i] # NaN})

ListedGroups == {result.groups[i] : i \in 1..Len(result.groups)}

IsStructuredFailure ==
    /\ result.success = FALSE
    /\ "message" \in DOMAIN result
    /\ "statistic" \notin DOMAIN result
    /\ "p_value" \notin DOMAIN result

\* twice the median of the observations of g (the columns are sorted)
TwiceMedian(g) ==
    LET obs == SelectSeq(data[g], LAMBDA v : v # NaN)
    IN  obs[(Len(obs) + 1) \div 2] + obs[(Len(obs) + 2) \div 2]

(***************************************************************************)
(* C15                                                                     *)
(***************************************************************************)
\* C15: calculate_kruskal_wallis leaves out every group with fewer than 5
\* non-missing observations; with fewer than 2 groups left it returns a
\* failure (success false, a message, no statistic); a successful result
\* lists exactly the groups with at least 5 observations.
C15_KruskalGroupsWithFiveObservations ==
    op = "kruskal" =>
        LET enough == {g \in GroupsPresent : Observations(g) >= 5}
        IN  /\ (Cardinality(enough) < 2 => IsStructuredFailure)
            /\ (result.success =>
                    /\ ListedGroups = enough
                    /\ Len(result.groups) = Cardinality(enough))

\* a successful test of two groups that left a third, smaller group out
C15_Witness ==
    /\ op = "kruskal"
    /\ result.success
    /\ Len(result.groups) = 2
    /\ \E g \in GroupsPresent : Observations(g) = 4 /\ g \notin ListedGroups

(***************************************************************************)
(* C16                                                                     *)
(***************************************************************************)
\* C16: calculate_mann_whitney returns a failure (success false and a
\* message, neither an exception nor a test result) whenever a named group is
\* absent or has fewer than 3 non-missing observations, and computes the test
\* only when both are present with at least 3 each.
C16_MannWhitneyNeedsThreePerGroup ==
    op = "mann_whitney" =>
        LET testable == \A g \in {arg[1], arg[2]} :
                            g \in GroupsPresent /\ Observations(g) >= 3
        IN  /\ (~testable => IsStructuredFailure)
            /\ (result.success => testable /\ result.groups = arg)

\* a test computed on a group of exactly 3 observations and a missing cell
C16_Witness ==
    /\ op = "mann_whitney"
    /\ result.success
    /\ Observations(arg[1]) = 3
    /\ Len(data[arg[1]]) = 4

(***************************************************************************)
(* C17                                                                     *)
(***************************************************************************)
\* C17: when calculate_mann_whitney reports a significant difference between
\* two different groups, the group it names as higher has the strictly higher median, and the medians
\* it shows are those of the two groups.
C17_HigherGroupHasHigherMedian ==
    (op = "mann_whitney" /\ arg[1] # arg[2] /\ result.success /\ result.significant) =>
        /\ {result.direction.higher, result.direction.lower} = {arg[1], arg[2]}
        /\ TwiceMedian(result.direction.higher) > TwiceMedian(result.direction.lower)
        /\ RatEq(result.direction.higher_median,
                 Rat(TwiceMedian(result.direction.higher), 2))
        /\ RatEq(result.direction.lower_median,
                 Rat(TwiceMedian(result.direction.lower), 2))

(***************************************************************************)
(* C18                                                                     *)
(***************************************************************************)
\* C18: every result of calculate_kruskal_wallis or calculate_mann_whitney
\* that carries a p-value has it in [0, 1] and reports significant exactly
\* when the p-value is below 0.05.
C18_SignificantIffPBelowAlpha ==
    (op \in {"kruskal", "mann_whitney"} /\ "p_value" \in DOMAIN result) =>
        /\ result.p_value >= 0
        /\ result.p_value <= 1000
        /\ result.significant = (result.p_value < 50)

\* a p-value of exactly 0.05 reported as not significant
C18_Witness ==
    /\ op \in {"kruskal", "mann_whitney"}
    /\ "p_value" \in DOMAIN result
    /\ result.p_value = 50
    /\ ~result.significant

(***************************************************************************)
(* AlphaDiversityAnalyzer.compare_groups                                   *)
(*                                                                         *)
(* self.data is the sequence of its rows, each a group cell and a metric   *)
(* cell; a group cell can be missing (MissingLabel), a metric cell can be  *)
(* NaN.  A float is a fraction; den = 0 stands for the non-finite floats:  *)
(* num > 0 for inf, num < 0 for -inf and num = 0 for NaN.                  *)
(***************************************************************************)
MaxRows == 3

AlphaLabels == {"A", "B", "C"}
AlphaValues == {0, 1, 2}
\* the columns of the table, and the names a call can ask for
GroupColumn == "group"
ColumnNames == {"group", "treatment"}

AlphaRows ==
    [group : AlphaLabels \cup {MissingLabel}, value : AlphaValues \cup {NaN}]

AlphaTables == UNION {[1..n -> AlphaRows] : n \in 0..MaxRows}

Inf == Rat(1, 0)
NegInf == Rat(-1, 0)
IsFinite(q) == q.den # 0

\* float subtraction of finite numbers or NaN
FloatSub(p, q) ==
    IF ~IsFinite(p) \/ ~IsFinite(q) THEN RatNaN
    ELSE Rat(p.num * q.den - q.num * p.den, p.den * q.den)

\* numpy float64 division: x / 0 is inf, -inf or NaN and raises nothing
FloatDiv(p, q) ==
    IF ~IsFinite(p) \/ ~IsFinite(q) THEN RatNaN
    ELSE IF q.num = 0
         THEN (IF p.num = 0 THEN RatNaN
               ELSE IF p.num * p.den > 0 THEN Inf ELSE NegInf)
         ELSE Rat(p.num * q.den * (IF q.num < 0 THEN -1 ELSE 1),
                  p.den * Abs(q.num))

\* float multiplication by a positive integer
FloatTimes(p, k) == IF IsFinite(p) THEN Rat(p.num * k, p.den) ELSE p

\* Series.unique(): the values in order of first appearance, NaN included
RECURSIVE UniqueOf(_, _)
UniqueOf(rows, seen) ==
    IF rows = <<>> THEN seen
    ELSE UniqueOf(Tail(rows),
                  IF \E i \in 1..Len(seen) : seen[i] = Head(rows).group
                  THEN seen ELSE Append(seen, Head(rows).group))

RECURSIVE RowValues(_, _)
\* self.data[self.data[group_column] == g][metric]: nothing equals NaN
RowValues(rows, g) ==
    IF rows = <<>> THEN <<>>
    ELSE IF Head(rows).group = g /\ g # MissingLabel
         THEN <<Head(rows).value>> \o RowValues(Tail(rows), g)
         ELSE RowValues(Tail(rows), g)

RECURSIVE SumOf(_)
SumOf(values) == IF values = <<>> THEN 0 ELSE Head(values) + SumOf(Tail(values))

\* Series.mean(): missing cells are skipped, the mean of nothing is NaN
SeriesMean(series) ==
    LET present == SelectSeq(series, LAMBDA v : v # NaN)
    IN  IF present = <<>> THEN RatNaN ELSE Rat(SumOf(present), Len(present))

\* str(g) for g in groups
StrOf(g) == IF g = MissingLabel THEN "nan" ELSE g

\* what mannwhitneyu(x, y) can do: on two non-empty samples without NaN it
\* returns a p-value; on an empty sample it raises ValueError or returns NaN,
\* and on a sample with a NaN it returns NaN or ranks the NaN, depending on
\* the scipy installed
MannWhitneyOutcomes(x, y) ==
    LET clean(s) == s # <<>> /\ \A i \in 1..Len(s) : s[i] # NaN
    IN  IF clean(x) /\ clean(y)
        THEN {[raised |-> FALSE, p_value |-> p] : p \in PValues}
        ELSE {[raised |-> FALSE, p_value |-> p] : p \in PValues \cup {NaN}}
                 \cup (IF x = <<>> \/ y = <<>>
                       THEN {[raised |-> TRUE, p_value |-> NaN]} ELSE {})

\* 'difference_pct'
DifferencePct(mean1, mean2) ==
    FloatTimes(FloatDiv(FloatSub(mean2, mean1), mean1), 100)

compare_groups(group_column, lib) ==
    LET groups == UniqueOf(data, <<>>)
        group1_data == RowValues(data, groups[1])
        group2_data == RowValues(data, groups[2])
    IN  IF group_column # GroupColumn THEN [raised |-> "ValueError"]
        ELSE IF Len(groups) # 2
        THEN [error |-> "Comparacao suporta apenas 2 grupos"]
        ELSE IF lib.raised THEN [raised |-> "ValueError"]
        ELSE [groups |-> <<StrOf(groups[1]), StrOf(groups[2])>>,
              group1_mean |-> SeriesMean(group1_data),
              group2_mean |-> SeriesMean(group2_data),
              difference_pct |-> DifferencePct(SeriesMean(group1_data),
                                               SeriesMean(group2_data)),
              statistic |-> "U",
              p_value |-> lib.p_value,
              significant |-> (lib.p_value # NaN /\ Significant(lib.p_value))]

NotCalled == [raised |-> FALSE, p_value |-> NaN]

CompareGroups ==
    /\ op = "init"
    /\ \E group_column \in ColumnNames :
          LET groups == UniqueOf(data, <<>>)
          IN  /\ \E lib \in IF group_column = GroupColumn /\ Len(groups) = 2
                            THEN MannWhitneyOutcomes(RowValues(data, groups[1]),
                                                     RowValues(data, groups[2]))
                            ELSE {NotCalled} :
                     result' = compare_groups(group_column, lib)
              /\ arg' = <<group_column>>
    /\ op' = "compare"
    /\ UNCHANGED <<data, depths, analyzer, loadVars>>

AlphaInit ==
    /\ LoadIdle
    /\ data \in AlphaTables
    /\ depths = <<>>
    /\ op = "init"
    /\ arg = <<>>
    /\ result = <<>>
    /\ analyzer = "alpha"

AlphaNext == CompareGroups

AlphaSpec == AlphaInit /\ [][AlphaNext]_vars

(***************************************************************************)
(* C19, C20: vocabulary                                                    *)
(***************************************************************************)
\* the groups of the table: the distinct labels of its rows
AlphaGroups == {data[i].group : i \in 1..Len(data)} \ {MissingLabel}

NoMissingMetric == \A i \in 1..Len(data) : data[i].value # NaN

IsErrorObject == DOMAIN result = {"error"}
IsComparison ==
    {"group1_mean", "group2_mean", "statistic", "p_value", "significant"}
        \subseteq DOMAIN result

\* the values of the group of the first row
FirstGroupValues ==
    {data[i].value : i \in {j \in 1..Len(data) : data[j].group = data[1].group}}

(***************************************************************************)
(* C19                                                                     *)
(***************************************************************************)
\* C19: called on an existing group column of a table without missing metric
\* cells, compare_groups returns an error object and raises nothing whenever
\* the rows do not fall into exactly two groups (none, one, three or more),
\* and returns the means, statistic, p-value and significance only when there
\* are exactly two groups.
C19_ErrorObjectUnlessTwoGroups ==
    (op = "compare" /\ arg[1] = GroupColumn /\ NoMissingMetric) =>
        /\ (Cardinality(AlphaGroups) # 2 => IsErrorObject)
        /\ (IsComparison => Cardinality(AlphaGroups) = 2)

(***************************************************************************)
(* C20                                                                     *)
(***************************************************************************)
\* C20: when the rows of a table without missing cells fall into two groups
\* and the mean of the first group is zero, compare_groups does not give inf,
\* -inf or NaN as difference_pct (and raises nothing).
C20_ZeroBaselineIsDefined ==
    (/\ op = "compare" /\ arg[1] = GroupColumn /\ NoMissingMetric
     /\ Cardinality(AlphaGroups) = 2
     /\ \A i \in 1..Len(data) : data[i].group # MissingLabel
     /\ FirstGroupValues = {0}) =>
        /\ "difference_pct" \in DOMAIN result
        /\ IsFinite(result.difference_pct)

(***************************************************************************)
(* BetaDiversityAnalyzer                                                   *)
(*                                                                         *)
(* data is self.distance_matrix, data[i][j] the cell of row i and column   *)
(* j, in tenths; depths holds self.sample_ids, which label the rows and    *)
(* the columns.                                                            *)
(***************************************************************************)
MaxBetaSamples == 3
MaxNearest == 3

Distances == {0, 1, 2, 3}
SampleNames == <<"A", "B", "C", "D", "E">>
\* a name no matrix has
AbsentSample == "Z"

Pairs(n) == {p \in (1..n) \X (1..n) : p[1] < p[2]}

\* a matrix from its upper triangle u: symmetric with a zero diagonal, or
\* with the cells on and under the diagonal all equal to fill
SymmetricMatrix(n, u) ==
    <<>> \o [i \in 1..n |-> <<>> \o [j \in 1..n |->
        IF i < j THEN u[<<i, j>>] ELSE IF i = j THEN 0 ELSE u[<<j, i>>]]]

FilledMatrix(n, u, fill) ==
    <<>> \o [i \in 1..n |-> <<>> \o [j \in 1..n |->
        IF i < j THEN u[<<i, j>>] ELSE fill]]

\* the documented example: AB = 0.2, AC = 0.5, BC = 0.6
ExampleMatrix == <<<<0, 2, 5>>, <<2, 0, 6>>, <<5, 6, 0>>>>

\* the matrices of n samples an analyzer is built on
BetaMatrices(n) ==
    {SymmetricMatrix(n, u) : u \in [Pairs(n) -> Distances]} \cup
    {FilledMatrix(n, uf[1], uf[2]) : uf \in [Pairs(n) -> Distances] \X Distances}

\* np.triu_indices_from(values, k=1): the index pairs in row-major order
RECURSIVE TriuRow(_, _, _)
TriuRow(i, j, n) ==
    IF j > n THEN <<>> ELSE <<<<i, j>>>> \o TriuRow(i, j + 1, n)

RECURSIVE TriuFrom(_, _, _)
TriuFrom(i, n, k) ==
    IF i > n THEN <<>> ELSE TriuRow(i, i + k, n) \o TriuFrom(i + 1, n, k)

triu_indices_WithDiagonal(matrix) == TriuFrom(1, Len(matrix), 0)

triu_indices(matrix) == TriuFrom(1, Len(matrix), 1)

\* values[triu_indices]
TakeCells(matrix, indices) ==
    [h \in 1..Len(indices) |-> matrix[indices[h][1]][indices[h][2]]]

\* a stable ascending sort of items by their value field
RECURSIVE InsertByValue(_, _)
InsertByValue(sorted, item) ==
    IF sorted = <<>> THEN <<item>>
    ELSE IF item.value < sorted[Len(sorted)].value
         THEN Append(InsertByValue(SubSeq(sorted, 1, Len(sorted) - 1), item),
                     sorted[Len(sorted)])
         ELSE Append(sorted, item)

RECURSIVE SortByValue(_)
SortByValue(items) ==
    IF items = <<>> THEN <<>>
    ELSE InsertByValue(SortByValue(SubSeq(items, 1, Len(items) - 1)),
                       items[Len(items)])

\* np.sort of an array of numbers
SortNumbers(values) ==
    LET items == [h \in 1..Len(values) |-> [id |-> "", value |-> values[h]]]
        sorted == SortByValue(items)
    IN  [h \in 1..Len(values) |-> sorted[h].value]

RECURSIVE SumOfSquares(_)
SumOfSquares(values) ==
    IF values = <<>> THEN 0
    ELSE Head(values) * Head(values) + SumOfSquares(Tail(values))

\* np.std squared: mean of squares minus the square of the mean
Variance(values) ==
    LET n == Len(values)
    IN  Rat(n * SumOfSquares(values) - SumOf(values) * SumOf(values), n * n)

\* np.mean / np.median / np.min / np.max of a non-empty array
get_distance_stats ==
    LET distances == TakeCells(data, triu_indices(data))
        sorted == SortNumbers(distances)
    IN  IF distances = <<>>
        THEN [raised |-> "ValueError"]
        ELSE [mean |-> Rat(SumOf(distances), Len(distances)),
              median |-> median(sorted),
              std_squared |-> Variance(distances),
              min |-> sorted[1],
              max |-> sorted[Len(sorted)]]

\* the position of sample_id in self.sample_ids
PositionOf(sample_id) == CHOOSE i \in 1..Len(depths) : depths[i] = sample_id

\* distances[distances.index != sample_id]
Others_WithSelf(row, sample_id) == row

Others(row, sample_id) == SelectSeq(row, LAMBDA item : item.id # sample_id)

\* Series.nsmallest(n): the n smallest in ascending order, the first of equal
\* values first; nothing when n <= 0
nsmallest(series, n) ==
    LET sorted == SortByValue(series)
    IN  IF n <= 0 THEN <<>>
        ELSE SubSeq(sorted, 1, IF n < Len(sorted) THEN n ELSE Len(sorted))

get_closest_samples(sample_id, n) ==
    IF \A i \in 1..Len(depths) : depths[i] # sample_id
    THEN [raised |-> "ValueError", closest |-> <<>>]
    ELSE LET row == data[PositionOf(sample_id)]
             distances == [j \in 1..Len(row) |-> [id |-> depths[j], value |-> row[j]]]
         IN  [raised |-> None,
              closest |-> nsmallest(Others(distances, sample_id), n)]

\* MDS(...).fit_transform: sklearn's SMACOF either raises (a matrix it
\* rejects), stops when the stress change falls below eps, or stops at
\* max_iter without having converged; in both last cases it returns the
\* embedding it has
MdsOutcomes == {"converged", "max_iter", "raised"}

RandomState == 42

calculate_pcoa(n_components, mds) ==
    IF mds = "raised" THEN [raised |-> "ValueError"]
    ELSE [raised |-> None,
          index |-> depths,
          columns |-> [i \in 1..n_components |-> i],
          converged |-> (mds = "converged"),
          random_state |-> RandomState,
          fits |-> 1]

GetDistanceStats ==
    /\ op = "init"
    /\ op' = "distance_stats"
    /\ arg' = <<>>
    /\ result' = get_distance_stats
    /\ UNCHANGED <<data, depths, analyzer, loadVars>>

GetClosestSamples ==
    /\ op = "init"
    /\ \E i \in 1..(Len(depths) + 1), n \in 0..MaxNearest :
          LET sample_id == IF i <= Len(depths) THEN depths[i] ELSE AbsentSample
          IN  /\ arg' = <<sample_id, n>>
              /\ result' = get_closest_samples(sample_id, n)
    /\ op' = "closest"
    /\ UNCHANGED <<data, depths, analyzer, loadVars>>

CalculatePcoa ==
    /\ op = "init"
    /\ \E mds \in MdsOutcomes :
          result' = calculate_pcoa(2, mds)
    /\ op' = "pcoa"
    /\ arg' = <<>>
    /\ UNCHANGED <<data, depths, analyzer, loadVars>>

BetaInit ==
    /\ LoadIdle
    /\ \E n \in 1..MaxBetaSamples : data \in BetaMatrices(n) \cup {ExampleMatrix}
    /\ depths = SubSeq(SampleNames, 1, Len(data))
    /\ op = "init"
    /\ arg = <<>>
    /\ result = <<>>
    /\ analyzer = "beta"

BetaNext == GetDistanceStats \/ GetClosestSamples \/ CalculatePcoa

BetaSpec == BetaInit /\ [][BetaNext]_vars

(***************************************************************************)
(* C21 - C23: vocabulary                                                   *)
(***************************************************************************)
\* the unordered pairs of samples, each once, and their distances
UpperPairs == {p \in (1..Len(data)) \X (1..Len(data)) : p[1] < p[2]}
UpperValues == {data[p[1]][p[2]] : p \in UpperPairs}

RECURSIVE PairSum(_)
PairSum(S) ==
    IF S = {} THEN 0
    ELSE LET p == CHOOSE q \in S : TRUE
         IN  data[p[1]][p[2]] + PairSum(S \ {p})

\* q is a median of the pair distances: at least half of them are at most q
\* and at least half are at least q
IsMedianOfPairs(q) ==
    /\ IsFinite(q)
    /\ 2 * Cardinality({p \in UpperPairs : data[p[1]][p[2]] * q.den <= q.num})
           >= Cardinality(UpperPairs)
    /\ 2 * Cardinality({p \in UpperPairs : data[p[1]][p[2]] * q.den >= q.num})
           >= Cardinality(UpperPairs)

Between(q, lo, hi) == RatGe(q, Rat(lo, 1)) /\ RatGe(Rat(hi, 1), q)

NameIndex(name) == CHOOSE i \in 1..Len(depths) : depths[i] = name
IsSampleName(name) == \E i \in 1..Len(depths) : depths[i] = name

\* (distance, column) of one sample comes before that of another
CloserThan(v1, c1, v2, c2) == v1 < v2 \/ (v1 = v2 /\ c1 < c2)

(***************************************************************************)
(* C21                                                                     *)
(***************************************************************************)
\* C21: for a matrix of at least two samples get_distance_stats computes
\* min, max, mean and median over the cells (i, j) with i < j, each pair once
\* and no diagonal cell, so all four lie between the smallest and the largest
\* of these cells.
C21_StatsOverStrictUpperTriangle ==
    (op = "distance_stats" /\ Len(data) >= 2) =>
        /\ "mean" \in DOMAIN result
        /\ result.min = MinOf(UpperValues)
        /\ result.max = MaxOf(UpperValues)
        /\ RatEq(result.mean, Rat(PairSum(UpperPairs), Cardinality(UpperPairs)))
        /\ IsMedianOfPairs(result.median)
        /\ Between(result.mean, MinOf(UpperValues), MaxOf(UpperValues))
        /\ Between(result.median, MinOf(UpperValues), MaxOf(UpperValues))

\* the documented example: min 0.2, max 0.6, mean 1.3 / 3
C21_Witness ==
    /\ op = "distance_stats"
    /\ data = ExampleMatrix
    /\ result.min = 2
    /\ result.max = 6
    /\ RatEq(result.mean, Rat(13, 3))

(***************************************************************************)
(* C22                                                                     *)
(***************************************************************************)
\* C22: get_closest_samples(sample_id, n) raises and returns nothing when
\* sample_id is not in the matrix; otherwise it returns min(n, number of
\* other samples) samples, never sample_id itself, each with its distance to
\* sample_id, in ascending order of distance, equal distances in column
\* order, and no sample left out is closer than one returned.
C22_ClosestSamples ==
    op = "closest" =>
        LET sample_id == arg[1]
            n == arg[2]
            closest == result.closest
            others == Len(depths) - 1
            row == data[NameIndex(sample_id)]
        IN  IF ~IsSampleName(sample_id)
            THEN result.raised = "ValueError" /\ closest = <<>>
            ELSE /\ result.raised = None
                 /\ Len(closest) = (IF n < others THEN n ELSE others)
                 /\ \A h \in 1..Len(closest) :
                       /\ IsSampleName(closest[h].id)
                       /\ closest[h].id # sample_id
                       /\ closest[h].value = row[NameIndex(closest[h].id)]
                 /\ \A h, k \in 1..Len(closest) :
                       h < k => CloserThan(closest[h].value, NameIndex(closest[h].id),
                                           closest[k].value, NameIndex(closest[k].id))
                 /\ \A j \in 1..Len(depths) :
                       (depths[j] # sample_id
                          /\ \A h \in 1..Len(closest) : closest[h].id # depths[j])
                       => \A h \in 1..Len(closest) :
                              CloserThan(closest[h].value, NameIndex(closest[h].id),
                                         row[j], j)

\* one of two equally distant samples is returned, the other left out
C22_Witness ==
    /\ op = "closest"
    /\ result.raised = None
    /\ Len(result.closest) = 1
    /\ \E j \in 1..Len(depths) :
          /\ depths[j] \notin {arg[1], result.closest[1].id}
          /\ data[NameIndex(arg[1])][j] = result.closest[1].value

(***************************************************************************)
(* C23                                                                     *)
(***************************************************************************)
\* C23: when the ordination does not converge, calculate_pcoa fits a second
\* time with another seed and raises ComputationError if that fails too: a
\* coordinate table it returns is never an unconverged one.
C23_PcoaNeverReturnsUnconverged ==
    (op = "pcoa" /\ result.raised = None) => result.converged

(***************************************************************************)
(* C28                                                                     *)
(***************************************************************************)
\* C28: when at least one depth qualifies, recommend_sampling_depth
\* recommends a depth, also when every qualifying depth scores zero; the
\* "no depth keeps the minimum of samples" failure is reported only when no
\* depth qualifies.
C28_QualifyingDepthIsRecommended ==
    op = "recommend" =>
        /\ (QualifyingDepths(arg[1]) # {} => result.recommended_depth # NoDepth)
        /\ (result.reason = ReasonNotFound => QualifyingDepths(arg[1]) = {})

(***************************************************************************)
(* AlphaDiversityAnalyzer.interpret_value and get_summary_stats            *)
(*                                                                         *)
(* A value is a number of hundredths; a metric name is a str, a sequence   *)
(* of one-character strings.                                               *)
(***************************************************************************)
\* 1.5, 2.5, 3.5; 0.5, 0.8; 100, 300 (in hundredths)
ShannonModerate == 150
ShannonHigh == 250
ShannonVeryHigh == 350
SimpsonModerate == 50
SimpsonHigh == 80
RichnessModerate == 10000
RichnessHigh == 30000

\* str.lower(), on the letters the names use
LowerChar(ch) ==
    CASE ch = "S" -> "s"
      [] ch = "H" -> "h"
      [] ch = "O" -> "o"
      [] ch = "R" -> "r"
      [] ch = "E" -> "e"
      [] OTHER -> ch

Lower(text) == [i \in 1..Len(text) |-> LowerChar(text[i])]

\* word in text
Contains(word, text) ==
    \E i \in 1..(Len(text) - Len(word) + 1) :
        SubSeq(text, i, i + Len(word) - 1) = word

WordShannon == <<"s", "h", "a", "n", "n", "o", "n">>
WordSimpson == <<"s", "i", "m", "p", "s", "o", "n">>
WordObserved == <<"o", "b", "s", "e", "r", "v", "e", "d">>
WordRichness == <<"r", "i", "c", "h", "n", "e", "s", "s">>

LessThan_OrEqual(value, threshold) == value <= threshold

\* value < threshold
LessThan(value, threshold) == value < threshold

interpret_value(value, metric_name) ==
    LET metric == Lower(metric_name)
    IN  IF Contains(WordShannon, metric)
        THEN (IF LessThan(value, ShannonModerate)
              THEN "Baixa diversidade - comunidade dominada por poucas especies"
              ELSE IF LessThan(value, ShannonHigh)
              THEN "Diversidade moderada - comunidade relativamente equilibrada"
              ELSE IF LessThan(value, ShannonVeryHigh)
              THEN "Alta diversidade - comunidade bem equilibrada"
              ELSE "Diversidade muito alta - comunidade muito complexa")
        ELSE IF Contains(WordSimpson, metric)
        THEN (IF LessThan(value, SimpsonModerate)
              THEN "Baixa diversidade - alta dominancia de poucas especies"
              ELSE IF LessThan(value, SimpsonHigh)
              THEN "Diversidade moderada"
              ELSE "Alta diversidade - baixa dominancia")
        ELSE IF Contains(WordObserved, Lower(metric)) \/ Contains(WordRichness, Lower(metric))
        THEN (IF LessThan(value, RichnessModerate)
              THEN "Baixa riqueza - poucas especies detectadas"
              ELSE IF LessThan(value, RichnessHigh)
              THEN "Riqueza moderada"
              ELSE "Alta riqueza - muitas especies detectadas")
        ELSE "Interpretacao nao disponivel para esta metrica"

\* the metric names and values a call is given
NameShannon == <<"S", "h", "a", "n", "n", "o", "n">>
NameShannonEntropy ==
    <<"s", "h", "a", "n", "n", "o", "n", "_", "e", "n", "t", "r", "o", "p", "y">>
NameSimpson == <<"s", "i", "m", "p", "s", "o", "n">>
NameSimpsonE == <<"S", "i", "m", "p", "s", "o", "n", "_", "E">>
NameObserved ==
    <<"o", "b", "s", "e", "r", "v", "e", "d", "_", "f", "e", "a", "t", "u", "r", "e", "s">>
NameRichness == <<"R", "i", "c", "h", "n", "e", "s", "s">>
NameFaith == <<"f", "a", "i", "t", "h", "_", "p", "d">>
NameChao == <<"c", "h", "a", "o", "1">>

MetricNames ==
    {NameShannon, NameShannonEntropy, NameSimpson, NameSimpsonE, NameObserved,
     NameRichness, NameFaith, NameChao}

InterpretValues ==
    {-100, 0, 49, 50, 51, 79, 80, 81, 149, 150, 151, 249, 250, 251, 349, 350,
     351, 9999, 10000, 10001, 29999, 30000, 30001}

Interpret(values, names) ==
    /\ op = "init"
    /\ \E value \in values, metric \in names :
          /\ arg' = <<value, metric>>
          /\ result' = interpret_value(value, metric)
    /\ op' = "interpret"
    /\ UNCHANGED <<data, depths, analyzer, loadVars>>

InterpretValue == Interpret(InterpretValues, MetricNames)

\* the analyzer is built on a table of at most one row, which the call
\* never reads
InterpretInit ==
    /\ LoadIdle
    /\ data \in {<<>>} \cup {<<row>> : row \in AlphaRows}
    /\ depths = <<>>
    /\ op = "init"
    /\ arg = <<>>
    /\ result = <<>>
    /\ analyzer = "alpha"

InterpretNext == InterpretValue

InterpretSpec == InterpretInit /\ [][InterpretNext]_vars

(***************************************************************************)
(* C25: vocabulary                                                         *)
(***************************************************************************)
\* the family of each name, and the band each message stands for
FamilyOf(name) ==
    CASE name \in {NameShannon, NameShannonEntropy} -> "shannon"
      [] name \in {NameSimpson, NameSimpsonE} -> "simpson"
      [] name \in {NameObserved, NameRichness} -> "richness"
      [] OTHER -> "unrecognized"

BandOf(message) ==
    CASE message \in {"Baixa diversidade - comunidade dominada por poucas especies",
                      "Baixa diversidade - alta dominancia de poucas especies",
                      "Baixa riqueza - poucas especies detectadas"} -> "low"
      [] message \in {"Diversidade moderada - comunidade relativamente equilibrada",
                      "Diversidade moderada", "Riqueza moderada"} -> "moderate"
      [] message \in {"Alta diversidade - comunidade bem equilibrada",
                      "Alta diversidade - baixa dominancia",
                      "Alta riqueza - muitas especies detectadas"} -> "high"
      [] message = "Diversidade muito alta - comunidade muito complexa" -> "very high"
      [] OTHER -> "no interpretation available"

\* the band the thresholds give a value of a family (hundredths)
StatedBand(family, value) ==
    CASE family = "shannon" ->
            (IF value < 150 THEN "low" ELSE IF value < 250 THEN "moderate"
             ELSE IF value < 350 THEN "high" ELSE "very high")
      [] family = "simpson" ->
            (IF value < 50 THEN "low" ELSE IF value < 80 THEN "moderate" ELSE "high")
      [] family = "richness" ->
            (IF value < 10000 THEN "low" ELSE IF value < 30000 THEN "moderate"
             ELSE "high")
      [] OTHER -> "no interpretation available"

(***************************************************************************)
(* C25                                                                     *)
(***************************************************************************)
\* C25: interpret_value gives a value the one band of its metric family,
\* with the half-open thresholds 1.5 / 2.5 / 3.5 (Shannon), 0.5 / 0.8
\* (Simpson) and 100 / 300 (richness), and gives "no interpretation
\* available", never an error, for a metric of no known family.
C25_BandsByFamily ==
    op = "interpret" =>
        BandOf(result) = StatedBand(FamilyOf(arg[2]), arg[1])

\* a Shannon value of exactly 2.5 is high, under a capitalised name
C25_Witness ==
    /\ op = "interpret"
    /\ arg = <<250, NameShannon>>
    /\ BandOf(result) = "high"

(***************************************************************************)
(* AlphaDiversityAnalyzer.get_summary_stats, and the analyzers together    *)
(***************************************************************************)
\* the metric column of the alpha table, and the names a call can ask for
MetricColumn == "shannon"
MetricsAsked == {"shannon", "simpson"}

\* Series.quantile(k / 4) of a sorted NaN-free array: linear interpolation
Quartile(sorted, k) ==
    LET n == Len(sorted)
        lo == (((n - 1) * k) \div 4) + 1
        part == ((n - 1) * k) % 4
        hi == IF lo < n THEN lo + 1 ELSE lo
    IN  IF n = 0 THEN RatNaN
        ELSE Rat(4 * sorted[lo] + part * (sorted[hi] - sorted[lo]), 4)

\* Series.std() squared: the sample variance, NaN below two values
SampleVariance(values) ==
    LET n == Len(values)
    IN  IF n < 2 THEN RatNaN
        ELSE Rat(n * SumOfSquares(values) - SumOf(values) * SumOf(values),
                 n * (n - 1))

get_summary_stats(metric) ==
    LET serie == [i \in 1..Len(data) |-> data[i].value]
        sorted == SortNumbers(dropna(serie))
    IN  IF metric # MetricColumn THEN [raised |-> "ValueError"]
        ELSE [mean |-> SeriesMean(serie),
              median |-> median(sorted),
              std_squared |-> SampleVariance(sorted),
              min |-> IF sorted = <<>> THEN RatNaN ELSE Rat(sorted[1], 1),
              max |-> IF sorted = <<>> THEN RatNaN ELSE Rat(sorted[Len(sorted)], 1),
              q25 |-> Quartile(sorted, 1),
              q75 |-> Quartile(sorted, 3)]

TableAfterRead_Sorted(table) ==
    SortByValue(table)

\* self.data after serie = self.data[metric] and the statistics of serie:
\* mean, median, std, min, max and quantile read the column and write nothing
TableAfterRead(table) ==
    table

GetSummaryStats ==
    /\ op = "init"
    /\ \E metric \in MetricsAsked :
          /\ arg' = <<metric>>
          /\ result' = get_summary_stats(metric)
    /\ op' = "summary"
    /\ data' = TableAfterRead(data)
    /\ UNCHANGED <<depths, analyzer, loadVars>>

\* the caller makes its next call on the same analyzer
CallAgain ==
    /\ op # "init"
    /\ op' = "init"
    /\ arg' = <<>>
    /\ result' = <<>>
    /\ UNCHANGED <<data, depths, analyzer, loadVars>>

\* every analyzer on every table of its own, any number of calls
EngineInit == RareInit \/ StatInit \/ AlphaInit \/ BetaInit

EngineNext ==
    \/ analyzer = "rarefaction" /\ RareNext
    \/ analyzer = "statistics" /\ StatNext
    \/ analyzer = "alpha" /\ CompareGroups
    \/ analyzer = "alpha" /\ GetSummaryStats
    \/ analyzer = "alpha" /\ Interpret({149, 150}, {NameShannon, NameFaith})
    \/ analyzer = "beta" /\ BetaNext
    \/ CallAgain

EngineSpec == EngineInit /\ [][EngineNext]_vars

(***************************************************************************)
(* C24                                                                     *)
(***************************************************************************)
\* C24: no analyzer operation changes the table or matrix it was given:
\* across any sequence of calls, failing or not, the rows, columns, index
\* and values stay as they were.
C24_InputsUnchanged ==
    [][data' = data /\ depths' = depths]_vars

\* the same analyzer after a failed call, ready for the next one
C24_Witness ==
    /\ analyzer = "alpha"
    /\ op = "summary"
    /\ arg = <<"simpson">>
    /\ Len(data) = 2
    /\ data[1].value > data[2].value

(***************************************************************************)
(* C26                                                                     *)
(***************************************************************************)
\* a call between its mkdtemp and its cleanup: its directory is in use
Extracting == {"unzip", "find", "read", "cleanup"}

\* what load_qiime2_data gives for an input when no other call is running
ResultAlone(i) ==
    IF ~i.exists THEN "FileNotFoundError"
    ELSE IF ~i.qzv THEN (IF i.parse_ok THEN "returned" ELSE "ParserError")
    ELSE IF ~i.zip_ok THEN "BadZipFile"
    ELSE IF i.ntsv = 0
         THEN (IF i.variant = "backend" THEN "returned_none" ELSE "UnboundLocalError")
    ELSE IF i.parse_ok THEN "returned" ELSE "ParserError"

\* C26: concurrent archive loads share no temporary directory: the directory
\* a call works in is one it created itself, no two calls created the same
\* one, a directory in use has not been removed by another call, and each
\* call ends as it would when run alone.
C26_ConcurrentLoadsAreIsolated ==
    \A c \in Calls :
        /\ temp_dir[c] # NoDir => temp_dir[c] \in made[c]
        /\ \A d \in Calls \ {c} : made[c] \cap made[d] = {}
        /\ pc[c] \in Extracting => temp_dir[c] \in fs_dirs
        /\ outcome[c] # "running" => outcome[c] = ResultAlone(input[c])

\* one load has cleaned up and returned while the other is still reading
\* from its own directory
C26_Witness ==
    \E c \in Calls, d \in Calls :
        /\ c # d
        /\ outcome[c] = "returned" /\ input[c].qzv
        /\ pc[d] = "read"
        /\ temp_dir[d] \in fs_dirs

(***************************************************************************)
(* QIIME2Parser used directly: extract_qzv and cleanup in any order        *)
(***************************************************************************)
MaxDirs == 3

Parsers == Calls

\* extract_qzv(qzv_path) on parser p: the path exists or not, and is a
\* readable zip or not; the directory is created before the zip is opened
ExtractQzv(p) ==
    /\ next_dir < MaxDirs
    /\ \E exists \in BOOLEAN, zip_ok \in BOOLEAN :
          IF ~exists
          THEN /\ outcome' = [outcome EXCEPT ![p] = "FileNotFoundError"]
               /\ UNCHANGED <<fs_dirs, next_dir, temp_dir, made>>
          ELSE /\ next_dir' = next_dir + 1
               /\ fs_dirs' = fs_dirs \cup {next_dir + 1}
               /\ temp_dir' = [temp_dir EXCEPT ![p] = next_dir + 1]
               /\ made' = [made EXCEPT ![p] = @ \cup {next_dir + 1}]
               /\ outcome' = [outcome EXCEPT ![p] =
                     IF zip_ok THEN "returned" ELSE "BadZipFile"]
    /\ pc' = [pc EXCEPT ![p] = "extract_qzv"]
    /\ UNCHANGED <<input, tsv_files, df, rareVars>>

\* cleanup() on parser p
ParserCleanup(p) ==
    /\ fs_dirs' = CleanupDirs(temp_dir[p], fs_dirs)
    /\ temp_dir' = [temp_dir EXCEPT ![p] = CleanupTempDir(temp_dir[p], fs_dirs)]
    /\ pc' = [pc EXCEPT ![p] = "cleanup"]
    /\ outcome' = [outcome EXCEPT ![p] = "returned"]
    /\ UNCHANGED <<next_dir, input, made, tsv_files, df, rareVars>>

\* QIIME2Parser(): self.temp_dir = None
ParserInit ==
    /\ fs_dirs = {}
    /\ next_dir = 0
    /\ pc = [p \in Parsers |-> "new"]
    /\ input = [p \in Parsers |-> NoInput]
    /\ temp_dir = [p \in Parsers |-> NoDir]
    /\ made = [p \in Parsers |-> {}]
    /\ tsv_files = [p \in Parsers |-> 0]
    /\ df = [p \in Parsers |-> Unbound]
    /\ outcome = [p \in Parsers |-> None]
    /\ RareIdle

ParserNext == \E p \in Parsers : ExtractQzv(p) \/ ParserCleanup(p)

ParserSpec == ParserInit /\ [][ParserNext]_vars

(***************************************************************************)
(* C27                                                                     *)
(***************************************************************************)
\* C27: whenever the last call on a parser was cleanup(), the call did not
\* fail, none of the directories that parser created exists any more and
\* its temp_dir is None.
C27_CleanupLeavesNothing ==
    \A p \in Parsers :
        pc[p] = "cleanup" =>
            /\ outcome[p] = "returned"
            /\ made[p] \cap fs_dirs = {}
            /\ temp_dir[p] = NoDir

(***************************************************************************)
(* POST /api/parse (backend/routers/parse.py)                              *)
(***************************************************************************)
tableVars == <<data, depths, op, arg, result, analyzer>>

ALLOWED_EXTENSIONS == {".tsv", ".csv", ".qzv", ".qza", ".biom"}

\* Path(file.filename or "").suffix of the uploads tried
Suffixes == {".tsv", ".qzv", ".QZV", ".biom", ".txt", ""}

\* str.lower() on those suffixes
lower(suffix) == IF suffix = ".QZV" THEN ".qzv" ELSE suffix

\* tmp.name of a request that has created no temporary file
NoName == 0

\* what load_qiime2_data can find at tmp.name: the file exists, and it is
\* read as an archive when its suffix is .qzv
UploadedFiles(ext) ==
    {i \in Inputs : i.variant = "backend" /\ i.exists /\ (i.qzv <=> ext = ".qzv")}

unlink_Kept(files, name) ==
    files

\* os.unlink(tmp.name)
unlink(files, name) ==
    files \ {name}

\* the extension test and tempfile.NamedTemporaryFile(delete=False, suffix=ext)
ParseFile(c) ==
    /\ pc[c] = "request"
    /\ \E suffix \in Suffixes :
          LET ext == lower(suffix)
          IN  IF ext \notin ALLOWED_EXTENSIONS
              THEN /\ request' = [request EXCEPT ![c] =
                         [endpoint |-> "parse", ext |-> ext, tmp_name |-> NoName,
                          status |-> 400]]
                   /\ pc' = [pc EXCEPT ![c] = "responded"]
                   /\ UNCHANGED tmp_files
              ELSE /\ request' = [request EXCEPT ![c] =
                         [endpoint |-> "parse", ext |-> ext, tmp_name |-> c,
                          status |-> 0]]
                   /\ tmp_files' = tmp_files \cup {c}
                   /\ pc' = [pc EXCEPT ![c] = "tmp"]
    /\ UNCHANGED <<fs_dirs, next_dir, input, temp_dir, made, tsv_files, df, outcome,
                   report_files, tableVars>>

\* content = await file.read(); tmp.write(content); tmp.close(): any of them
\* may raise, and the finally clause then runs
ParseWrite(c) ==
    /\ pc[c] = "tmp"
    /\ \E written \in BOOLEAN :
          IF written
          THEN /\ pc' = [pc EXCEPT ![c] = "idle"]
               /\ UNCHANGED <<request, tmp_files>>
          ELSE /\ tmp_files' = unlink(tmp_files, request[c].tmp_name)
               /\ request' = [request EXCEPT ![c].status = 500]
               /\ pc' = [pc EXCEPT ![c] = "responded"]
    /\ UNCHANGED <<fs_dirs, next_dir, input, temp_dir, made, tsv_files, df, outcome,
                   report_files, tableVars>>

\* df = load_qiime2_data(tmp.name, data_type='auto'): the call begins
ParseLoad(c) ==
    /\ request[c].endpoint = "parse"
    /\ BeginOn(c, UploadedFiles(request[c].ext))

\* the rest of the handler once the load has ended: 422 for None, the
\* preview for a table, the exception otherwise; then the finally clause
ParseRespond(c) ==
    /\ pc[c] = "done"
    /\ request[c].endpoint = "parse"
    /\ request' = [request EXCEPT ![c].status =
          IF outcome[c] = "returned" THEN 200
          ELSE IF outcome[c] = "returned_none" THEN 422 ELSE 500]
    /\ tmp_files' = unlink(tmp_files, request[c].tmp_name)
    /\ pc' = [pc EXCEPT ![c] = "responded"]
    /\ UNCHANGED <<fs_dirs, next_dir, input, temp_dir, made, tsv_files, df, outcome,
                   report_files, tableVars>>

ParseInit ==
    /\ fs_dirs = {}
    /\ next_dir = 0
    /\ pc = [c \in Calls |-> "request"]
    /\ input = [c \in Calls |-> NoInput]
    /\ temp_dir = [c \in Calls |-> NoDir]
    /\ made = [c \in Calls |-> {}]
    /\ tsv_files = [c \in Calls |-> 0]
    /\ df = [c \in Calls |-> Unbound]
    /\ outcome = [c \in Calls |-> "running"]
    /\ RareIdle

ParseNext ==
    \E c \in Calls :
        \/ ParseFile(c)
        \/ ParseWrite(c)
        \/ ParseLoad(c)
        \/ LoadPlain(c)
        \/ Mkdtemp(c)
        \/ Unzip(c)
        \/ FindDataFiles(c)
        \/ ReadCsv(c)
        \/ Cleanup(c)
        \/ Return(c)
        \/ ParseRespond(c)

ParseSpec == ParseInit /\ [][ParseNext]_vars

(***************************************************************************)
(* C29                                                                     *)
(***************************************************************************)
\* C29: once the parse endpoint has answered, the temporary file of the
\* upload is gone whatever the answer was, and an upload whose extension
\* is not allowed was answered 400 without a temporary file ever created.
C29_UploadFileAlwaysRemoved ==
    \A c \in Calls :
        pc[c] = "responded" =>
            /\ request[c].tmp_name \notin tmp_files
            /\ (request[c].ext \notin ALLOWED_EXTENSIONS =>
                    request[c].status = 400 /\ request[c].tmp_name = NoName)
            /\ (request[c].status = 400 => request[c].ext \notin ALLOWED_EXTENSIONS)

\* one upload answered 422 and another answered with an exception, both
\* after their temporary files were created, and no file is left
C29_Witness ==
    \E c \in Calls, d \in Calls :
        /\ pc[c] = "responded" /\ request[c].status = 422
        /\ pc[d] = "responded" /\ request[d].status = 500
        /\ outcome[d] = "ParserError"
        /\ request[c].tmp_name # NoName /\ request[d].tmp_name # NoName
        /\ tmp_files = {}

(***************************************************************************)
(* POST /api/reports/pdf and /docx (backend/routers/reports.py) over       *)
(* ReportGenerator (backend/analysis/report_generator.py)                  *)
(***************************************************************************)
MaxSections == 2

\* ReportRequest.project_name (its default) and the sections requests carry
project_name == "Análise QIIME 2"
ReportSections ==
    {[title |-> "Alpha", content |-> "a", level |-> 2],
     [title |-> "Beta", content |-> "b", level |-> 3]}
SectionLists == UNION {[1..n -> ReportSections] : n \in 0..MaxSections}

\* A document is the sequence of the pieces joined into the file.
\* the loop over self.sections of generate_markdown: heading, then content
RECURSIVE MarkdownSections(_)
MarkdownSections(sections) ==
    IF sections = <<>> THEN <<>>
    ELSE <<<<"#", sections[1].level, sections[1].title>>,
           <<sections[1].content>>>> \o MarkdownSections(Tail(sections))

\* ReportGenerator.generate_markdown on a report with no image and no table
generate_markdown(name, sections) ==
    <<<<"#", 1, name>>, <<"**Data:**">>, <<"**Gerado por:**">>, <<"---">>>>
    \o MarkdownSections(sections)
    \o <<<<"---">>, <<"*Relatório gerado automaticamente pelo YARA*">>,
         <<"*Projeto IFAM - EMBRAPA - INPA*">>>>

\* the loop over self.sections of generate_html: <hN>title</hN>, <p>content</p>
RECURSIVE HtmlSections(_)
HtmlSections(sections) ==
    IF sections = <<>> THEN <<>>
    ELSE <<<<"h", sections[1].level, sections[1].title>>,
           <<"p", sections[1].content>>>> \o HtmlSections(Tail(sections))

\* ReportGenerator.generate_html on a report with no image and no table
generate_html(name, sections) ==
    <<<<"<!DOCTYPE html>", name>>, <<"h", 1, name>>, <<"metadata">>>>
    \o HtmlSections(sections)
    \o <<<<"footer">>>>

\* open(output_path, 'w') and f.write(''.join(...)): the file now holds
\* this document and nothing of what it held before
WriteFile(files, path, document) ==
    [files EXCEPT ![path] = document]

\* generate_pdf: the handler has no await, it runs as one step
GeneratePdf(c) ==
    /\ pc[c] = "request"
    /\ \E sections \in SectionLists :
          LET output_path == "uploads/reports/relatorio.html"
          IN  /\ report_files' =
                    WriteFile(report_files, output_path,
                              generate_html(project_name, sections))
              /\ request' = [request EXCEPT ![c] =
                    [endpoint |-> "pdf", sections |-> sections,
                     format |-> "html", path |-> output_path]]
    /\ pc' = [pc EXCEPT ![c] = "responded"]
    /\ UNCHANGED <<fs_dirs, next_dir, input, temp_dir, made, tsv_files, df, outcome,
                   tmp_files, tableVars>>

\* generate_docx: likewise
GenerateDocx(c) ==
    /\ pc[c] = "request"
    /\ \E sections \in SectionLists :
          LET output_path == "uploads/reports/relatorio.md"
          IN  /\ report_files' =
                    WriteFile(report_files, output_path,
                              generate_markdown(project_name, sections))
              /\ request' = [request EXCEPT ![c] =
                    [endpoint |-> "docx", sections |-> sections,
                     format |-> "markdown", path |-> output_path]]
    /\ pc' = [pc EXCEPT ![c] = "responded"]
    /\ UNCHANGED <<fs_dirs, next_dir, input, temp_dir, made, tsv_files, df, outcome,
                   tmp_files, tableVars>>

ReportInit == ParseInit

ReportNext == \E c \in Calls : GeneratePdf(c) \/ GenerateDocx(c)

ReportSpec == ReportInit /\ [][ReportNext]_vars

(***************************************************************************)
(* C30                                                                     *)
(***************************************************************************)
\* the report a request asked for, in the format its endpoint writes
OwnReport(c) ==
    IF request[c].endpoint = "pdf"
    THEN generate_html(project_name, request[c].sections)
    ELSE generate_markdown(project_name, request[c].sections)

\* C30: when two report requests with different sections have both been
\* answered, the file at the path returned to each holds that request's
\* own report.
C30_EachRequestFindsItsOwnReport ==
    \A c \in Calls, d \in Calls :
        (/\ c # d
         /\ pc[c] = "responded" /\ pc[d] = "responded"
         /\ request[c].sections # request[d].sections)
        => /\ report_files[request[c].path] = OwnReport(c)
           /\ report_files[request[d].path] = OwnReport(d)

====
